---------------------------- MODULE Spec2Model ----------------------------
(***************************************************************************)
(* Model of src/rust/src/main.rs: a client that provisions the wallets     *)
(* "Miner" and "Trader" on a Bitcoin daemon, mines until the Miner wallet  *)
(* has a spendable balance, sends 20 BTC to Trader, confirms the transfer  *)
(* with one more block and writes a ten line report to ../out.txt.         *)
(*                                                                         *)
(* The daemon is the environment: its wallet set, chain, wallet funds and  *)
(* unconfirmed pool are state, and every request the program issues is     *)
(* answered from that state or fails.                                      *)
(***************************************************************************)
EXTENDS Integers, Sequences, FiniteSets, TLC

(***************************************************************************)
(* Bounds of the model.                                                    *)
(***************************************************************************)
\* calls the provisioner harness makes
MaxCalls == 3
\* height of a chain that is not fresh at the start of a run
PriorHeight == 2
\* blocks another actor has generated during a run
MaxOther == 1
\* outputs of a decoded transaction
MaxOutputs == 3

(***************************************************************************)
(* The wallet names main passes to create_or_load_wallet (lines 99-100).   *)
(***************************************************************************)
Names == {"Miner", "Trader"}

WalletStates == {"absent", "unloaded", "loaded"}

(***************************************************************************)
(* Error messages, as sequences of words, so that the substring test of    *)
(* lines 63-64 is a test the model computes.                               *)
(***************************************************************************)
ErrDatabaseExists == <<"Wallet", "file", "verification", "failed", "Database", "already", "exists">>
ErrWalletExists == <<"Wallet", "already", "exists">>
ErrAlreadyLoaded == <<"Wallet", "is", "already", "loaded">>
ErrLoadFailed == <<"Wallet", "file", "verification", "failed">>
ErrNotFound == <<"Wallet", "file", "not", "found">>
ErrTransport == <<"transport", "error">>

\* str::contains (lines 63-64): needle occurs as a contiguous run of hay
Contains(hay, needle) ==
    \E i \in 0..(Len(hay) - Len(needle)) :
        \A j \in 1..Len(needle) : hay[i + j] = needle[j]

(***************************************************************************)
(* The daemon's answers to the three wallet requests.  fault = the request *)
(* fails before or outside the daemon's wallet logic (transport, auth, any *)
(* other RPC error).  An answer is [ok, msg, wallets]: wallets is the      *)
(* daemon's wallet set after the request.                                  *)
(***************************************************************************)
\* listwallets (line 40): the names of the loaded wallets
ListWallets(w, fault) ==
    IF fault
    THEN [ok |-> FALSE, msg |-> ErrTransport, names |-> {}]
    ELSE [ok |-> TRUE, msg |-> <<>>, names |-> {n \in Names : w[n] = "loaded"}]

\* createwallet (line 55): creates and loads an absent wallet; msg is the
\* daemon's message when the wallet's storage is already there
CreateWallet(w, name, fault, msg) ==
    IF fault
    THEN [ok |-> FALSE, msg |-> ErrTransport, wallets |-> w]
    ELSE IF w[name] = "absent"
    THEN [ok |-> TRUE, msg |-> <<>>, wallets |-> [w EXCEPT ![name] = "loaded"]]
    ELSE [ok |-> FALSE, msg |-> msg, wallets |-> w]

\* loadwallet (line 67): loads an unloaded wallet unless its storage cannot
\* be opened (broken)
LoadWallet(w, name, fault, broken) ==
    IF fault
    THEN [ok |-> FALSE, msg |-> ErrTransport, wallets |-> w]
    ELSE IF w[name] = "absent"
    THEN [ok |-> FALSE, msg |-> ErrNotFound, wallets |-> w]
    ELSE IF w[name] = "loaded"
    THEN [ok |-> FALSE, msg |-> ErrAlreadyLoaded, wallets |-> w]
    ELSE IF broken
    THEN [ok |-> FALSE, msg |-> ErrLoadFailed, wallets |-> w]
    ELSE [ok |-> TRUE, msg |-> <<>>, wallets |-> [w EXCEPT ![name] = "loaded"]]

\* what the environment decides about one provisioner call
ExistsMsgs == {ErrDatabaseExists, ErrWalletExists}
Env(faults) ==
    [list : faults, create : faults, load : faults,
     broken : BOOLEAN, msg : ExistsMsgs]
\* every request may fail
AnyEnv == Env(BOOLEAN)

(***************************************************************************)
(* is_wallet_loaded (lines 39-44).                                         *)
(***************************************************************************)
is_wallet_loaded(lw, wallet_name) ==
    IF lw.ok THEN wallet_name \in lw.names ELSE FALSE

(***************************************************************************)
(* create_or_load_wallet (lines 47-83) on wallet set w under environment   *)
(* e: [ret, wallets, reqs].  ret is "OkTrue", "OkFalse" or "Err"; reqs     *)
(* lists the requests issued, in order: each request, whether it           *)
(* succeeded, and whether the daemon answered that the wallet already      *)
(* exists (conflict).                                                      *)
(***************************************************************************)
Entry(rpc, ok, msg) == [rpc |-> rpc, ok |-> ok, conflict |-> msg \in ExistsMsgs]
Req(rpc, ans) == Entry(rpc, ans.ok, ans.msg)

\* only the first of the two patterns
already_exists_database_only(create_error_msg) ==
    Contains(create_error_msg, <<"Database", "already", "exists">>)

\* every create error taken for 'already exists'
already_exists_any_error(create_error_msg) == TRUE

\* lines 63-64
already_exists(create_error_msg) ==
    \/ Contains(create_error_msg, <<"Database", "already", "exists">>)
    \/ Contains(create_error_msg, <<"already", "exists">>)

\* a successful load reported as "created"
create_or_load_wallet_load_is_true(w, wallet_name, e) ==
    LET lw == ListWallets(w, e.list)
        cr == CreateWallet(w, wallet_name, e.create, e.msg)
        ld == LoadWallet(cr.wallets, wallet_name, e.load, e.broken)
        r1 == <<Req("listwallets", lw)>>
        r2 == Append(r1, Req("createwallet", cr))
        r3 == Append(r2, Req("loadwallet", ld))
    IN  IF is_wallet_loaded(lw, wallet_name)
        THEN [ret |-> "OkFalse", wallets |-> w, reqs |-> r1]
        ELSE IF cr.ok
        THEN [ret |-> "OkTrue", wallets |-> cr.wallets, reqs |-> r2]
        ELSE IF already_exists(cr.msg)
        THEN IF ld.ok
             THEN [ret |-> "OkTrue", wallets |-> ld.wallets, reqs |-> r3]
             ELSE [ret |-> "OkFalse", wallets |-> ld.wallets, reqs |-> r3]
        ELSE [ret |-> "Err", wallets |-> cr.wallets, reqs |-> r2]

\* a create error other than 'already exists' logged and swallowed
create_or_load_wallet_swallows_error(w, wallet_name, e) ==
    LET lw == ListWallets(w, e.list)
        cr == CreateWallet(w, wallet_name, e.create, e.msg)
        ld == LoadWallet(cr.wallets, wallet_name, e.load, e.broken)
        r1 == <<Req("listwallets", lw)>>
        r2 == Append(r1, Req("createwallet", cr))
        r3 == Append(r2, Req("loadwallet", ld))
    IN  IF is_wallet_loaded(lw, wallet_name)
        THEN [ret |-> "OkFalse", wallets |-> w, reqs |-> r1]
        ELSE IF cr.ok
        THEN [ret |-> "OkTrue", wallets |-> cr.wallets, reqs |-> r2]
        ELSE IF already_exists(cr.msg)
        THEN [ret |-> "OkFalse", wallets |-> ld.wallets, reqs |-> r3]
        ELSE [ret |-> "OkFalse", wallets |-> cr.wallets, reqs |-> r2]

create_or_load_wallet(w, wallet_name, e) ==
    LET lw == ListWallets(w, e.list)
        cr == CreateWallet(w, wallet_name, e.create, e.msg)
        ld == LoadWallet(cr.wallets, wallet_name, e.load, e.broken)
        r1 == <<Req("listwallets", lw)>>
        r2 == Append(r1, Req("createwallet", cr))
        r3 == Append(r2, Req("loadwallet", ld))
    IN  IF is_wallet_loaded(lw, wallet_name)
        THEN [ret |-> "OkFalse", wallets |-> w, reqs |-> r1]
        ELSE IF cr.ok
        THEN [ret |-> "OkTrue", wallets |-> cr.wallets, reqs |-> r2]
        ELSE IF already_exists(cr.msg)
        THEN IF ld.ok
             THEN [ret |-> "OkFalse", wallets |-> ld.wallets, reqs |-> r3]
             ELSE [ret |-> "OkFalse", wallets |-> ld.wallets, reqs |-> r3]
        ELSE [ret |-> "Err", wallets |-> cr.wallets, reqs |-> r2]

(***************************************************************************)
(* Amounts are integers in units of 0.00001 BTC, fine enough for the       *)
(* 0.0001 tolerance of lines 270-273.                                      *)
(***************************************************************************)
Coin == 100000
\* Amount::from_btc(20.0), line 171
amount_to_send == 20 * Coin
\* the block reward of the chain below its first halving
Subsidy == 50 * Coin
\* blocks on top of a coinbase before the wallet counts it (lines 139-140)
CoinbaseMaturity == 100
\* fees the daemon may charge the transfer
Fees == {2, 3}

\* addresses the daemon hands out
MinerAddr == "addr_mining_reward"
TraderAddr == "addr_received"
ChangeAddr == "addr_change"

\* an unspent output of the Miner wallet: cbh is the height of the block
\* whose coinbase it is, 0 when it is no coinbase
Utxo(id, amt, cbh) == [id |-> id, amt |-> amt, cbh |-> cbh]

\* funds the Miner wallet may hold when the chain is not fresh
InitFunds ==
    { {Utxo(0, Subsidy, 0)},
      {Utxo(0, amount_to_send + 3, 0)},
      {Utxo(0, 10 * Coin, 0)} }

RECURSIVE Sum(_)
Sum(S) ==
    IF S = {} THEN 0
    ELSE LET u == CHOOSE x \in S : TRUE IN u.amt + Sum(S \ {u})

\* a coinbase of block cbh is spendable once CoinbaseMaturity blocks are on top
Mature(u, h) == u.cbh = 0 \/ h - u.cbh >= CoinbaseMaturity
Spendable(us, h) == {u \in us : Mature(u, h)}

NoEntry == [found |-> FALSE, fee |-> 0]

\* a report line
TextLine(s) == [s |-> s, n |-> 0, d |-> 0]
\* a decimal with d fractional digits, n in units of 1/Coin
DecLine(n, d) == [s |-> "decimal", n |-> n, d |-> d]
IntLine(n) == [s |-> "integer", n |-> n, d |-> 0]
IdLine(kind, n) == [s |-> kind, n |-> n, d |-> 0]
OldReport == [i \in 1..10 |-> TextLine("old")]

VARIABLES
    \* the daemon: each wallet's state, the chain's height, the Miner wallet's
    \* unspent outputs, the unconfirmed pool, the confirmed transactions
    wallets, height, utxos, mempool, chain,
    \* the lines of ../out.txt
    outFile,
    \* main's position and locals
    pc, miner_created, trader_created, blocks_mined, miner_balance,
    txid, mempool_entry, confirmation_block_hash, confirmation_block_height,
    vouts, report,
    \* history: every request issued so far with its outcome; the latest two
    \* calls of create_or_load_wallet and their number; whether this run has
    \* opened ../out.txt; the height of the chain when the run started
    log, call, prevCall, callNo, touched, start_height

daemonVars == <<wallets, height, utxos, mempool, chain>>
localVars == <<miner_created, trader_created, blocks_mined, miner_balance,
               txid, mempool_entry, confirmation_block_hash,
               confirmation_block_height, vouts, report>>
callVars == <<call, prevCall, callNo>>
vars == <<daemonVars, outFile, pc, localVars, log, callVars, touched, start_height>>

\* the run started on a chain without blocks
fresh == start_height = 0

NoCall == [name |-> "", pre |-> "absent", before |-> [n \in Names |-> "absent"],
           ret |-> "", reqs |-> <<>>]
NoReport == <<>>

InitLocals ==
    /\ miner_created = FALSE
    /\ trader_created = FALSE
    /\ blocks_mined = 0
    /\ miner_balance = 0
    /\ txid = 0
    /\ mempool_entry = NoEntry
    /\ confirmation_block_hash = 0
    /\ confirmation_block_height = 0
    /\ vouts = <<>>
    /\ report = NoReport
    /\ log = <<>>
    /\ call = NoCall
    /\ prevCall = NoCall
    /\ callNo = 0
    /\ touched = FALSE

\* the daemon main may find when it starts: any wallet set, on a fresh chain
\* or on a chain where the Miner wallet holds funds; an earlier run's report
\* is at ../out.txt
Init ==
    /\ wallets \in [Names -> WalletStates]
    /\ \/ height = 0 /\ utxos = {}
       \/ /\ height = PriorHeight
          /\ utxos \in InitFunds
          /\ wallets["Miner"] # "absent"
    /\ start_height = height
    /\ mempool = {}
    /\ chain = {}
    /\ outFile = OldReport
    /\ pc = "start"
    /\ InitLocals

(***************************************************************************)
(* The daemon's chain and wallet requests.                                 *)
(***************************************************************************)
ErrNotLoaded == <<"Requested", "wallet", "does", "not", "exist", "or", "is", "not", "loaded">>
ErrInsufficient == <<"Insufficient", "funds">>
ErrNotInMempool == <<"Transaction", "not", "in", "mempool">>
ErrNoSuchTx == <<"No", "such", "transaction", "found", "in", "the", "provided", "block">>

\* a request on a wallet's endpoint needs the wallet loaded
WalletErr(name, fault) ==
    IF fault THEN ErrTransport
    ELSE IF wallets[name] # "loaded" THEN ErrNotLoaded
    ELSE <<>>

\* getbalance on the Miner endpoint (lines 141, 165, 233)
GetBalance == Sum(Spendable(utxos, height))

\* two blocks for one request
Generate_two_blocks ==
    /\ height' = height + 2
    /\ utxos' = utxos \cup {Utxo(height + 1, Subsidy + Sum({[amt |-> t.fee] : t \in mempool}), height + 1),
                            Utxo(height + 2, Subsidy, height + 2)}
    /\ chain' = chain \cup {[id |-> t.id, block |-> height + 1, tx |-> t] : t \in mempool}
    /\ mempool' = {}

\* generatetoaddress 1 <Miner address> (lines 135-136, 210-211): one block on
\* top of the chain, its coinbase paid to the Miner wallet, the unconfirmed
\* pool confirmed in it
Generate ==
    /\ height' = height + 1
    /\ utxos' = utxos \cup {Utxo(height + 1, Subsidy + Sum({[amt |-> t.fee] : t \in mempool}), height + 1)}
    /\ chain' = chain \cup {[id |-> t.id, block |-> height + 1, tx |-> t] : t \in mempool}
    /\ mempool' = {}

\* the input sets the daemon may select to pay amt + fee: enough, and none to spare
Selections(amt, fee) ==
    {ins \in SUBSET Spendable(utxos, height) :
        /\ Sum(ins) >= amt + fee
        /\ \A u \in ins : Sum(ins \ {u}) < amt + fee}

Vout(value, address) == [value |-> value, hasAddr |-> TRUE, address |-> address]

\* the transaction sendtoaddress builds: the recipient output and, when the
\* inputs exceed amount plus fee, a change output at either position
BuildTx(ins, amt, fee, changeFirst) ==
    LET change == Sum(ins) - amt - fee
        pay == Vout(amt, TraderAddr)
        rest == Vout(change, ChangeAddr)
    IN  [id |-> 1, ins |-> ins, fee |-> fee,
         vout |-> IF change = 0 THEN <<pay>>
                  ELSE IF changeFirst THEN <<rest, pay>> ELSE <<pay, rest>>]

(***************************************************************************)
(* The output classifier, lines 262-279.                                   *)
(***************************************************************************)
\* 0.0001 BTC, lines 270 and 273
Tolerance == Coin \div 10000

Abs(x) == IF x < 0 THEN -x ELSE x

\* one iteration of the loop of lines 267-279
classify_step(acc, vout) ==
    IF ~vout.hasAddr THEN acc
    ELSE IF Abs(vout.value - amount_to_send) < Tolerance
    THEN [acc EXCEPT !.trader_output_address = vout.address]
    ELSE IF vout.value > 0 /\ Abs(vout.value - amount_to_send) >= Tolerance
    THEN [acc EXCEPT !.miner_change_address = vout.address,
                     !.miner_change_amount = DecLine(vout.value, 8)]
    ELSE acc

RECURSIVE classify_from(_, _, _)
classify_from(vs, i, acc) ==
    IF i > Len(vs) THEN acc
    ELSE classify_from(vs, i + 1, classify_step(acc, vs[i]))

\* the roles read off the positions of a two output list
classify_by_position(vs) ==
    IF Len(vs) = 2
    THEN [trader_output_address |-> vs[1].address,
          miner_change_address |-> vs[2].address,
          miner_change_amount |-> DecLine(vs[2].value, 8)]
    ELSE [trader_output_address |-> TraderAddr,
          miner_change_address |-> MinerAddr,
          miner_change_amount |-> DecLine(0, 1)]

\* the change fields left empty until an output fills them
classify_no_defaults(vs) ==
    classify_from(vs, 1,
        [trader_output_address |-> TraderAddr,
         miner_change_address |-> "",
         miner_change_amount |-> DecLine(0, 8)])

\* the list walked from its end, so that the first output of a kind wins
classify_first_wins(vs) ==
    classify_from([i \in 1..Len(vs) |-> vs[Len(vs) + 1 - i]], 1,
        [trader_output_address |-> TraderAddr,
         miner_change_address |-> MinerAddr,
         miner_change_amount |-> DecLine(0, 1)])

\* lines 263-279: the defaults, then the loop
classify(vs) ==
    classify_from(vs, 1,
        [trader_output_address |-> TraderAddr,
         miner_change_address |-> MinerAddr,
         miner_change_amount |-> DecLine(0, 1)])

\* the fee line worked out from the report's other amounts
ReportLines_fee_recomputed(c) ==
    << IdLine("txid", txid),
       TextLine(MinerAddr),
       DecLine(50 * Coin, 1),
       TextLine(c.trader_output_address),
       DecLine(20 * Coin, 1),
       TextLine(c.miner_change_address),
       c.miner_change_amount,
       DecLine(50 * Coin - 20 * Coin - c.miner_change_amount.n, 8),
       IntLine(confirmation_block_height),
       IdLine("blockhash", confirmation_block_hash) >>

\* the ten lines of lines 293-302
ReportLines(c) ==
    << IdLine("txid", txid),
       TextLine(MinerAddr),
       DecLine(50 * Coin, 1),
       TextLine(c.trader_output_address),
       DecLine(20 * Coin, 1),
       TextLine(c.miner_change_address),
       c.miner_change_amount,
       DecLine(mempool_entry.fee, 8),
       IntLine(confirmation_block_height),
       IdLine("blockhash", confirmation_block_hash) >>

(***************************************************************************)
(* main, lines 85-305: one action per request or step.  A request that     *)
(* fails returns through `?`: the run ends in "failed".  Client::new       *)
(* (lines 87-90, 106-114) only builds a client from constants and issues   *)
(* no request.  The daemon's answers are well formed, so the unwrap and    *)
(* index of lines 195, 214, 218 and 260 do not panic.                      *)
(***************************************************************************)
\* line 93
GetBlockchainInfo ==
    /\ pc = "start"
    /\ \E fault \in BOOLEAN :
        /\ log' = Append(log, Entry("getblockchaininfo", ~fault, IF fault THEN ErrTransport ELSE <<>>))
        /\ pc' = IF fault THEN "failed" ELSE "miner_wallet"
    /\ UNCHANGED <<daemonVars, outFile, localVars, callVars, touched, start_height>>

\* a call of create_or_load_wallet from main, `?` applied to its result
Provision(wallet_name, e, next) ==
    LET r == create_or_load_wallet(wallets, wallet_name, e)
    IN  /\ wallets' = r.wallets
        /\ log' = log \o r.reqs
        /\ prevCall' = call
        /\ call' = [name |-> wallet_name, pre |-> wallets[wallet_name],
                    before |-> wallets, ret |-> r.ret, reqs |-> r.reqs]
        /\ callNo' = callNo + 1
        /\ pc' = IF r.ret = "Err" THEN "failed" ELSE next

\* line 99
ProvisionMiner ==
    /\ pc = "miner_wallet"
    /\ \E e \in AnyEnv :
        /\ Provision("Miner", e, "trader_wallet")
        /\ miner_created' = (create_or_load_wallet(wallets, "Miner", e).ret = "OkTrue")
    /\ UNCHANGED <<height, utxos, mempool, chain, outFile, trader_created,
                   blocks_mined, miner_balance, txid, mempool_entry,
                   confirmation_block_hash, confirmation_block_height, vouts,
                   report, touched, start_height>>

\* line 100
ProvisionTrader ==
    /\ pc = "trader_wallet"
    /\ \E e \in AnyEnv :
        /\ Provision("Trader", e, "miner_address")
        /\ trader_created' = (create_or_load_wallet(wallets, "Trader", e).ret = "OkTrue")
    /\ UNCHANGED <<height, utxos, mempool, chain, outFile, miner_created,
                   blocks_mined, miner_balance, txid, mempool_entry,
                   confirmation_block_hash, confirmation_block_height, vouts,
                   report, touched, start_height>>

\* a request on a wallet endpoint that changes nothing main keeps
WalletRequest(at, rpc, name, next) ==
    /\ pc = at
    /\ \E fault \in BOOLEAN :
        LET err == WalletErr(name, fault)
        IN  /\ log' = Append(log, Entry(rpc, err = <<>>, err))
            /\ pc' = IF err = <<>> THEN next ELSE "failed"
    /\ UNCHANGED <<daemonVars, outFile, localVars, callVars, touched, start_height>>

\* the loop's balance set from the wallet before the loop
MinerNewAddress_reads_balance ==
    /\ pc = "miner_address"
    /\ \E fault \in BOOLEAN :
        LET err == WalletErr("Miner", fault)
        IN  /\ log' = Append(log, Entry("getnewaddress", err = <<>>, err))
            /\ pc' = IF err = <<>> THEN "while" ELSE "failed"
            /\ miner_balance' = IF err = <<>> THEN GetBalance ELSE miner_balance
    /\ UNCHANGED <<daemonVars, outFile, miner_created, trader_created, blocks_mined,
                   txid, mempool_entry, confirmation_block_hash,
                   confirmation_block_height, vouts, report, callVars, touched,
                   start_height>>

\* line 119
MinerNewAddress == WalletRequest("miner_address", "getnewaddress", "Miner", "while")

\* the loop left on a balance of zero too
LoopExit_on_zero == miner_balance >= 0

\* the loop left only on more than one block reward
LoopExit_above_reward == miner_balance > Subsidy

\* line 128: while miner_balance <= Amount::ZERO
LoopExit == miner_balance > 0

LoopTest ==
    /\ pc = "while"
    /\ pc' = IF LoopExit THEN "trader_address" ELSE "mine"
    /\ UNCHANGED <<daemonVars, outFile, localVars, log, callVars, touched, start_height>>

\* lines 129-137
MineBlock ==
    /\ pc = "mine"
    /\ blocks_mined' = blocks_mined + 1
    /\ \E fault \in BOOLEAN :
        LET err == WalletErr("Miner", fault)
        IN  /\ log' = Append(log, Entry("generatetoaddress", err = <<>>, err))
            /\ IF err = <<>>
               THEN Generate /\ pc' = "balance"
               ELSE UNCHANGED <<height, utxos, mempool, chain>> /\ pc' = "failed"
    /\ UNCHANGED <<wallets, outFile, miner_created, trader_created, miner_balance,
                   txid, mempool_entry, confirmation_block_hash,
                   confirmation_block_height, vouts, report, callVars, touched, start_height>>

\* lines 141-146
ReadBalance ==
    /\ pc = "balance"
    /\ \E fault \in BOOLEAN :
        LET err == WalletErr("Miner", fault)
        IN  /\ log' = Append(log, Entry("getbalance", err = <<>>, err))
            /\ IF err = <<>>
               THEN miner_balance' = GetBalance /\ pc' = "while"
               ELSE UNCHANGED miner_balance /\ pc' = "failed"
    /\ UNCHANGED <<daemonVars, outFile, miner_created, trader_created, blocks_mined,
                   txid, mempool_entry, confirmation_block_hash,
                   confirmation_block_height, vouts, report, callVars, touched, start_height>>

\* line 153
TraderNewAddress == WalletRequest("trader_address", "getnewaddress", "Trader", "trader_balance")
\* line 159
TraderBalance == WalletRequest("trader_balance", "getbalance", "Trader", "balance_before")
\* line 165
BalanceBefore == WalletRequest("balance_before", "getbalance", "Miner", "send")

\* lines 178-193
SendToAddress ==
    /\ pc = "send"
    /\ \E fault \in BOOLEAN, fee \in Fees, changeFirst \in BOOLEAN :
        LET sels == Selections(amount_to_send, fee)
            werr == WalletErr("Miner", fault)
            err == IF werr # <<>> THEN werr
                   ELSE IF sels = {} THEN ErrInsufficient ELSE <<>>
        IN  /\ log' = Append(log, Entry("sendtoaddress", err = <<>>, err))
            /\ IF err = <<>>
               THEN \E ins \in sels :
                        LET tx == BuildTx(ins, amount_to_send, fee, changeFirst)
                            change == Sum(ins) - amount_to_send - fee
                        IN  /\ mempool' = mempool \cup {tx}
                            /\ utxos' = (utxos \ ins) \cup
                                   (IF change > 0 THEN {Utxo(-1, change, 0)} ELSE {})
                            /\ txid' = tx.id
                            /\ pc' = "mempool"
               ELSE UNCHANGED <<mempool, utxos, txid>> /\ pc' = "failed"
    /\ UNCHANGED <<wallets, height, chain, outFile, miner_created, trader_created,
                   blocks_mined, miner_balance, mempool_entry,
                   confirmation_block_hash, confirmation_block_height, vouts,
                   report, callVars, touched, start_height>>

\* a transaction missing from the pool passed over, the run going on
GetMempoolEntry_skips_missing ==
    /\ pc = "mempool"
    /\ \E fault \in BOOLEAN :
        /\ log' = Append(log, Entry("getmempoolentry", ~fault, IF fault THEN ErrTransport ELSE <<>>))
        /\ pc' = IF fault THEN "failed" ELSE "confirm"
    /\ mempool_entry' = [found |-> TRUE, fee |-> 2]
    /\ UNCHANGED <<daemonVars, outFile, miner_created, trader_created, blocks_mined,
                   miner_balance, txid, confirmation_block_hash,
                   confirmation_block_height, vouts, report, callVars, touched, start_height>>

\* lines 200-205
GetMempoolEntry ==
    /\ pc = "mempool"
    /\ \E fault \in BOOLEAN :
        LET found == {t \in mempool : t.id = txid}
            err == IF fault THEN ErrTransport
                   ELSE IF found = {} THEN ErrNotInMempool ELSE <<>>
        IN  /\ log' = Append(log, Entry("getmempoolentry", err = <<>>, err))
            /\ IF err = <<>>
               THEN /\ mempool_entry' = [found |-> TRUE, fee |-> (CHOOSE t \in found : TRUE).fee]
                    /\ pc' = "confirm"
               ELSE UNCHANGED mempool_entry /\ pc' = "failed"
    /\ UNCHANGED <<daemonVars, outFile, miner_created, trader_created, blocks_mined,
                   miner_balance, txid, confirmation_block_hash,
                   confirmation_block_height, vouts, report, callVars, touched, start_height>>

\* lines 210-218
ConfirmBlock ==
    /\ pc = "confirm"
    /\ \E fault \in BOOLEAN :
        LET err == WalletErr("Miner", fault)
        IN  /\ log' = Append(log, Entry("generatetoaddress", err = <<>>, err))
            /\ IF err = <<>>
               THEN /\ Generate
                    /\ confirmation_block_hash' = height + 1
                    /\ pc' = "chain_info"
               ELSE /\ UNCHANGED <<height, utxos, mempool, chain, confirmation_block_hash>>
                    /\ pc' = "failed"
    /\ UNCHANGED <<wallets, outFile, miner_created, trader_created, blocks_mined,
                   miner_balance, txid, mempool_entry, confirmation_block_height,
                   vouts, report, callVars, touched, start_height>>

\* lines 221-223
ChainInfo ==
    /\ pc = "chain_info"
    /\ \E fault \in BOOLEAN :
        /\ log' = Append(log, Entry("getblockchaininfo", ~fault, IF fault THEN ErrTransport ELSE <<>>))
        /\ IF fault
           THEN UNCHANGED confirmation_block_height /\ pc' = "failed"
           ELSE confirmation_block_height' = height /\ pc' = "get_tx"
    /\ UNCHANGED <<daemonVars, outFile, miner_created, trader_created, blocks_mined,
                   miner_balance, txid, mempool_entry, confirmation_block_hash,
                   vouts, report, callVars, touched, start_height>>

\* the transaction txid in block confirmation_block_hash, if it is there
InBlock == {c \in chain : c.id = txid /\ c.block = confirmation_block_hash}

\* getrawtransaction <txid> <verbose> <blockhash>, lines 226, 246, 255-258
TxRequest(at, next, decoded) ==
    /\ pc = at
    /\ \E fault \in BOOLEAN :
        LET err == IF fault THEN ErrTransport
                   ELSE IF InBlock = {} THEN ErrNoSuchTx ELSE <<>>
        IN  /\ log' = Append(log, Entry("getrawtransaction", err = <<>>, err))
            /\ IF err = <<>>
               THEN /\ vouts' = IF decoded THEN (CHOOSE c \in InBlock : TRUE).tx.vout ELSE vouts
                    /\ pc' = next
               ELSE UNCHANGED vouts /\ pc' = "failed"
    /\ UNCHANGED <<daemonVars, outFile, miner_created, trader_created, blocks_mined,
                   miner_balance, txid, mempool_entry, confirmation_block_hash,
                   confirmation_block_height, report, callVars, touched, start_height>>

\* line 226
GetConfirmedTx == TxRequest("get_tx", "final_miner", FALSE)
\* line 233
FinalMinerBalance == WalletRequest("final_miner", "getbalance", "Miner", "final_trader")
\* the transfer issued again after the balances are read
FinalTraderBalance_sends_again == WalletRequest("final_trader", "getbalance", "Trader", "send")

\* line 236
FinalTraderBalance == WalletRequest("final_trader", "getbalance", "Trader", "get_tx_again")
\* line 246
GetConfirmedTxAgain == TxRequest("get_tx_again", "decode", FALSE)
\* lines 255-260
DecodeTx == TxRequest("decode", "classify", TRUE)

\* lines 262-289
Classify ==
    /\ pc = "classify"
    /\ report' = ReportLines(classify(vouts))
    /\ pc' = "create_file"
    /\ UNCHANGED <<daemonVars, outFile, miner_created, trader_created, blocks_mined,
                   miner_balance, txid, mempool_entry, confirmation_block_hash,
                   confirmation_block_height, vouts, log, callVars, touched, start_height>>

\* line 292: File::create truncates the file it opens
CreateFile ==
    /\ pc = "create_file"
    /\ \E ioerr \in BOOLEAN :
        IF ioerr
        THEN UNCHANGED <<outFile, touched>> /\ pc' = "failed"
        ELSE outFile' = <<>> /\ touched' = TRUE /\ pc' = "write"
    /\ UNCHANGED <<daemonVars, localVars, log, callVars, start_height>>

\* lines 293-302: the next writeln!, straight to the file
WriteLine ==
    /\ pc = "write"
    /\ \E ioerr \in BOOLEAN :
        IF ioerr
        THEN UNCHANGED outFile /\ pc' = "failed"
        ELSE /\ outFile' = Append(outFile, report[Len(outFile) + 1])
             /\ pc' = IF Len(outFile) + 1 = Len(report) THEN "done" ELSE "write"
    /\ UNCHANGED <<daemonVars, localVars, log, callVars, touched, start_height>>

Next ==
    \/ GetBlockchainInfo
    \/ ProvisionMiner
    \/ ProvisionTrader
    \/ MinerNewAddress
    \/ LoopTest
    \/ MineBlock
    \/ ReadBalance
    \/ TraderNewAddress
    \/ TraderBalance
    \/ BalanceBefore
    \/ SendToAddress
    \/ GetMempoolEntry
    \/ ConfirmBlock
    \/ ChainInfo
    \/ GetConfirmedTx
    \/ FinalMinerBalance
    \/ FinalTraderBalance
    \/ GetConfirmedTxAgain
    \/ DecodeTx
    \/ Classify
    \/ CreateFile
    \/ WriteLine

Spec == Init /\ [][Next]_vars

\* main runs on until it returns: no step that can be taken is put off forever
LiveSpec == Spec /\ WF_vars(Next)

(***************************************************************************)
(* The daemon shared with another actor, who may have a block generated    *)
(* between any two requests of main: the block goes on top of the chain,   *)
(* confirms the unconfirmed pool and pays its reward to a wallet that is   *)
(* not Miner.  main's requests at lines 136, 141, 200, 211, 221 and 226    *)
(* are then answered from the chain as that block left it.                 *)
(***************************************************************************)
\* successful generatetoaddress requests of this run
Generated ==
    Cardinality({i \in DOMAIN log : log[i].rpc = "generatetoaddress" /\ log[i].ok})
\* blocks on the chain that neither this run nor the chain's past put there
OtherBlocks == height - start_height - Generated

OtherBlock ==
    /\ pc \notin {"failed", "done"}
    /\ OtherBlocks < MaxOther
    /\ height' = height + 1
    /\ chain' = chain \cup {[id |-> t.id, block |-> height + 1, tx |-> t] : t \in mempool}
    /\ mempool' = {}
    /\ UNCHANGED <<wallets, utxos, outFile, pc, localVars, log, callVars, touched, start_height>>

NextRace == Next \/ OtherBlock

\* a daemon others use has a chain with a past: one of the chains of Init
\* that is not fresh, or a chain on which the Miner wallet's only funds are
\* the reward of block PriorHeight, two blocks short of its maturity
InitRace ==
    \/ Init /\ ~fresh
    \/ /\ wallets \in [Names -> WalletStates]
       /\ wallets["Miner"] # "absent"
       /\ height = PriorHeight + CoinbaseMaturity - 2
       /\ utxos = {Utxo(0, Subsidy, PriorHeight)}
       /\ start_height = height
       /\ mempool = {}
       /\ chain = {}
       /\ outFile = OldReport
       /\ pc = "start"
       /\ InitLocals

SpecRace == InitRace /\ [][NextRace]_vars

(***************************************************************************)
(* The provisioner on its own: create_or_load_wallet called up to MaxCalls *)
(* times, for any names, on a daemon in any wallet state.                  *)
(***************************************************************************)
InitProv ==
    /\ wallets \in [Names -> WalletStates]
    /\ height = 0
    /\ utxos = {}
    /\ start_height = 0
    /\ mempool = {}
    /\ chain = {}
    /\ outFile = OldReport
    /\ pc = "provisioner"
    /\ InitLocals

ProvCall ==
    /\ pc = "provisioner"
    /\ callNo < MaxCalls
    /\ \E wallet_name \in Names, e \in AnyEnv :
        Provision(wallet_name, e, "provisioner")
    /\ UNCHANGED <<height, utxos, mempool, chain, outFile, localVars, touched, start_height>>

NextProv == ProvCall

SpecProv == InitProv /\ [][NextProv]_vars

(***************************************************************************)
(* The classifier and the report writer on their own: lines 262-302 on any *)
(* output list a decoded transaction may hold.  The amounts are ones on    *)
(* which the f64 comparison of lines 270 and 273 and exact arithmetic      *)
(* agree: inside the tolerance by 0.00001 and outside it by 0.00001.       *)
(***************************************************************************)
OutputValues ==
    {0, amount_to_send, amount_to_send + Tolerance - 1, amount_to_send + Tolerance + 1}
\* an output whose scriptPubKey has no address (line 269)
NoAddr(value) == [value |-> value, hasAddr |-> FALSE, address |-> ""]
Outputs ==
    {Vout(v, a) : v \in OutputValues, a \in {TraderAddr, ChangeAddr}}
        \cup {NoAddr(v) : v \in {amount_to_send, amount_to_send + Tolerance + 1}}
OutputLists == UNION {[1..n -> Outputs] : n \in 0..MaxOutputs}

InitClassifier ==
    /\ wallets = [n \in Names |-> "loaded"]
    /\ height = PriorHeight + 2
    /\ utxos = {}
    /\ start_height = PriorHeight
    /\ mempool = {}
    /\ chain = {}
    /\ outFile = OldReport
    /\ pc = "classify"
    /\ miner_created = FALSE
    /\ trader_created = FALSE
    /\ blocks_mined = 1
    /\ miner_balance = Subsidy
    /\ txid = 1
    /\ mempool_entry \in {[found |-> TRUE, fee |-> f] : f \in Fees}
    /\ confirmation_block_hash = PriorHeight + 2
    /\ confirmation_block_height = PriorHeight + 2
    /\ vouts \in OutputLists
    /\ report = NoReport
    /\ log = <<>>
    /\ call = NoCall
    /\ prevCall = NoCall
    /\ callNo = 0
    /\ touched = FALSE

NextClassifier == Classify \/ CreateFile \/ WriteLine

SpecClassifier == InitClassifier /\ [][NextClassifier]_vars

(***************************************************************************)
(* Properties.                                                             *)
(***************************************************************************)
\* the provisioner has been called; call is its latest call
Called == call.name # ""
Count(reqs, rpc) == Cardinality({i \in DOMAIN reqs : reqs[i].rpc = rpc})
CreateOk(c) == \E i \in DOMAIN c.reqs : c.reqs[i].rpc = "createwallet" /\ c.reqs[i].ok
CreateExists(c, i) ==
    /\ c.reqs[i].rpc = "createwallet"
    /\ ~c.reqs[i].ok
    /\ c.reqs[i].conflict
LoadFailed(c) == \E i \in DOMAIN c.reqs : c.reqs[i].rpc = "loadwallet" /\ ~c.reqs[i].ok

\* a createwallet request of call c failed with an error outside 'already exists'
CreateFatal(c) ==
    \E i \in DOMAIN c.reqs :
        /\ c.reqs[i].rpc = "createwallet"
        /\ ~c.reqs[i].ok
        /\ ~c.reqs[i].conflict

\* two calls in a row for the same name
Twice == callNo >= 2 /\ prevCall.name = call.name

C3_TrueIffCreated ==
    Called =>
        /\ (call.ret = "OkTrue") <=> CreateOk(call)
        /\ CreateOk(call) <=> (call.pre = "absent" /\ wallets[call.name] # "absent")
        /\ Len(call.reqs) = 1 => call.ret = "OkFalse"
        /\ Count(call.reqs, "loadwallet") > 0 => call.ret = "OkFalse"

C3_Witness ==
    /\ Called
    /\ call.pre = "absent"
    /\ call.ret = "OkTrue"
    /\ wallets[call.name] = "loaded"

\* C4: a call for a loaded wallet issues no createwallet and no loadwallet
\* and leaves the wallet set as it was; a call for an absent wallet issues
\* one createwallet and no loadwallet; a call for an unloaded wallet issues
\* one createwallet, which does not succeed, and when it fails with 'already
\* exists' exactly one loadwallet follows it; and no loadwallet is issued
\* unless a createwallet of the same call failed with 'already exists' before it
C4_ThreeWayBranch ==
    Called =>
        /\ call.pre = "loaded" =>
            /\ Count(call.reqs, "createwallet") = 0
            /\ Count(call.reqs, "loadwallet") = 0
            /\ wallets = call.before
        /\ call.pre = "absent" =>
            /\ Count(call.reqs, "createwallet") = 1
            /\ Count(call.reqs, "loadwallet") = 0
        /\ call.pre = "unloaded" =>
            /\ Count(call.reqs, "createwallet") = 1
            /\ ~CreateOk(call)
            /\ (\E i \in DOMAIN call.reqs : CreateExists(call, i)) =>
                /\ Count(call.reqs, "loadwallet") = 1
                /\ call.reqs[Len(call.reqs)].rpc = "loadwallet"
        /\ \A i \in DOMAIN call.reqs :
            call.reqs[i].rpc = "loadwallet" =>
                \E j \in 1..(i - 1) : CreateExists(call, j)

\* C5: when createwallet fails with an error outside the 'already exists'
\* class, create_or_load_wallet returns the error without a loadwallet
\* request and the run is over before any address is requested or any block
\* is mined
C5_CreateErrorIsFatal ==
    (Called /\ CreateFatal(call)) =>
        /\ call.ret = "Err"
        /\ Count(call.reqs, "loadwallet") = 0
        /\ pc = "failed"
        /\ Count(log, "getnewaddress") = 0
        /\ Count(log, "generatetoaddress") = 0

C5_Witness ==
    /\ call.name = "Trader"
    /\ call.pre = "absent"
    /\ CreateFatal(call)
    /\ prevCall.ret = "OkTrue"
    /\ pc = "failed"

\* a failed request the provisioner goes on from: the create conflict and
\* the load after it
Tolerated(e) ==
    \/ e.rpc = "createwallet" /\ e.conflict
    \/ e.rpc = "loadwallet"

\* C6: apart from the create conflict and a failed load, a failed request is
\* the last request of the run and leaves the run failed
C6_FirstErrorAborts ==
    \A i \in DOMAIN log :
        (~log[i].ok /\ ~Tolerated(log[i])) => (pc = "failed" /\ i = Len(log))

LoopPcs == {"while", "mine", "balance"}
AfterLoopPcs ==
    {"trader_address", "trader_balance", "balance_before", "send", "mempool",
     "confirm", "chain_info", "get_tx", "final_miner", "final_trader",
     "get_tx_again", "decode", "classify", "create_file", "write", "done"}
LastFailed == Len(log) > 0 /\ ~log[Len(log)].ok

\* C7: a run that goes on past the mining loop does so with the last balance
\* the loop read above zero, and the only other step out of the loop is a
\* failed request that ends the run
C7_LoopExitsPositive ==
    [][ /\ pc' \in AfterLoopPcs => miner_balance' > 0
        /\ (pc \in LoopPcs /\ pc' \notin LoopPcs) =>
            \/ pc' = "trader_address" /\ miner_balance' > 0
            \/ pc' = "failed" /\ LastFailed' ]_vars

C7_Witness ==
    /\ pc = "trader_address"
    /\ blocks_mined = CoinbaseMaturity + 1
    /\ miner_balance = Subsidy

\* C8: on a fresh chain the mining loop ends, by a failed request or after
\* exactly 101 iterations
C8_FreshChain101 ==
    fresh =>
        /\ [](pc \in LoopPcs => blocks_mined <= 101)
        /\ [](pc = "trader_address" => blocks_mined = 101)
        /\ <>(pc = "failed" \/ pc = "trader_address")

C8_Witness ==
    /\ fresh
    /\ pc = "trader_address"
    /\ blocks_mined = 101
    /\ \A i \in DOMAIN log : log[i].ok

\* the pipeline's state at each position of main
PhaseOf(at) ==
    IF at \in {"start", "miner_wallet", "trader_wallet"} THEN 0
    ELSE IF at \in {"miner_address"} \cup LoopPcs THEN 1
    ELSE IF at \in {"trader_address", "trader_balance", "balance_before", "send"} THEN 2
    ELSE IF at \in {"mempool", "confirm", "chain_info", "get_tx"} THEN 3
    ELSE IF at \in {"final_miner", "final_trader", "get_tx_again", "decode",
                    "classify", "create_file", "write"} THEN 4
    ELSE IF at = "done" THEN 5
    ELSE 6

\* the positions of log at which rpc was requested
Where(rpc) == {i \in DOMAIN log : log[i].rpc = rpc}
\* generatetoaddress requests after the transfer request
ConfirmRequests ==
    LET sent == Where("sendtoaddress")
    IN  IF sent = {} THEN {}
        ELSE {i \in DOMAIN log : log[i].rpc = "generatetoaddress" /\ \E j \in sent : j < i}
FetchedConfirmed ==
    \E i \in Where("getrawtransaction") : log[i].ok /\ InBlock # {}

\* C9: the pipeline moves from each state to itself, to the next state or to
\* Failed; from Transferred on the run has issued one transfer request, and
\* from Confirmed on one request for a block after it, and never more; the
\* report file is opened once, after the transaction was fetched from the
\* mined block, and the report is complete at the end
C9_LinearPipeline ==
    [][ /\ PhaseOf(pc') \in {PhaseOf(pc), PhaseOf(pc) + 1, 6}
        /\ Cardinality(Where("sendtoaddress")') <= 1
        /\ Cardinality(ConfirmRequests') <= 1
        /\ PhaseOf(pc') \in 3..5 => Cardinality(Where("sendtoaddress")') = 1
        /\ PhaseOf(pc') \in 4..5 => Cardinality(ConfirmRequests') = 1
        /\ touched' => FetchedConfirmed'
        /\ touched => Len(outFile') >= Len(outFile)
        /\ pc' = "done" => (pc = "write" /\ outFile' = report') ]_vars

C9_Witness ==
    /\ pc = "done"
    /\ Cardinality(Where("sendtoaddress")) = 1
    /\ Cardinality(ConfirmRequests) = 1
    /\ outFile = report
    /\ Len(outFile) = 10

\* C10: a run that failed has left the report file as it found it, or complete
C10_NoPartialReport ==
    pc = "failed" => (~touched \/ Len(outFile) = 10)

\* the transfer's transaction is in the unconfirmed pool
InPool == \E t \in mempool : t.id = txid
\* the transfer's transaction is in a block
Confirmed == \E c \in chain : c.id = txid

\* C11: when the transfer request has returned and the transaction is not in
\* the unconfirmed pool, the pool-entry request ends the run as failed, with
\* no block requested after the transfer and the report file not opened
C11_MissingFromPoolAborts ==
    [][ (pc = "mempool" /\ ~InPool /\ pc' # pc) =>
            /\ pc' = "failed"
            /\ log'[Len(log')].rpc = "getmempoolentry"
            /\ ~log'[Len(log')].ok
            /\ ConfirmRequests' = {}
            /\ ~touched'
            /\ outFile' = OldReport ]_vars

C11_Witness ==
    /\ pc = "failed"
    /\ Cardinality(Where("sendtoaddress")) = 1
    /\ log[Len(log)].rpc = "getmempoolentry"
    /\ Confirmed
    /\ ~InPool
    /\ ConfirmRequests = {}
    /\ outFile = OldReport

\* an output of vs is within the tolerance of the transfer amount
HasRecipient(vs) ==
    \E i \in DOMAIN vs : Abs(vs[i].value - amount_to_send) < Tolerance

\* C12: a run whose decoded transaction has no output within the tolerance
\* of the transfer amount ends as failed at the classifier, the report file
\* not opened
C12_NoRecipientIsFatal ==
    ~HasRecipient(vouts) =>
        /\ pc \notin {"create_file", "write", "done"}
        /\ ~touched

\* the classifier has run: report holds its results at lines 4, 6 and 7
Classified == report # NoReport
\* the claims' notion of an amount equal to the transfer amount within tolerance
Within(value) == Abs(value - amount_to_send) < Tolerance
\* vouts is two addressed outputs, the one at i within the tolerance; the
\* other one's position
TwoOutputs(i) ==
    /\ Len(vouts) = 2
    /\ i \in 1..2
    /\ vouts[1].hasAddr /\ vouts[2].hasAddr
    /\ Within(vouts[i].value)
Other(i) == 3 - i
\* the report names the output at i as recipient and the other one as change
RolesAre(i) ==
    /\ report[4] = TextLine(vouts[i].address)
    /\ report[6] = TextLine(vouts[Other(i)].address)
    /\ report[7] = DecLine(vouts[Other(i)].value, 8)

\* C13 as claimed: of two addressed outputs of which one is within the
\* tolerance of the transfer amount, the classifier names that one's address
\* as recipient and the other one's address and amount as change, at either
\* position and whatever the other amount is
C13_TwoOutputsAnyAmount ==
    Classified => \A i \in 1..2 : TwoOutputs(i) => RolesAre(i)

\* C13 as amended: of two addressed outputs of which one is within the
\* tolerance of the transfer amount and the other is positive and not within
\* it, the classifier names the first one's address as recipient and the
\* other one's address and amount as change, at either position
C13_TwoOutputsDistinctAmounts ==
    Classified =>
        \A i \in 1..2 :
            (/\ TwoOutputs(i)
             /\ vouts[Other(i)].value > 0
             /\ ~Within(vouts[Other(i)].value)) => RolesAre(i)

C13_Witness ==
    /\ pc = "done"
    /\ outFile = report
    /\ TwoOutputs(2)
    /\ vouts[1] = Vout(amount_to_send + Tolerance + 1, ChangeAddr)
    /\ vouts[2].address = TraderAddr
    /\ RolesAre(2)

\* the decoded transaction's only output is the recipient's
OnlyRecipient ==
    /\ Len(vouts) = 1
    /\ vouts[1].hasAddr
    /\ Within(vouts[1].value)

\* C14: when the decoded transaction's only output is the recipient's, the
\* classifier does not fail, the report names the address main mined to as
\* change address and "0.0" as change amount, and a run that ends well has
\* written them as lines 6 and 7
C14_NoChangeDefaults ==
    OnlyRecipient =>
        /\ pc = "failed" => Classified
        /\ Classified =>
            /\ report[4] = TextLine(vouts[1].address)
            /\ report[6] = TextLine(MinerAddr)
            /\ report[7] = DecLine(0, 1)
        /\ pc = "done" =>
            /\ Len(outFile) = 10
            /\ outFile[6] = TextLine(MinerAddr)
            /\ outFile[7] = DecLine(0, 1)

C14_Witness ==
    /\ pc = "done"
    /\ OnlyRecipient
    /\ Cardinality(Where("sendtoaddress")) = 1
    /\ outFile[6] = TextLine(MinerAddr)
    /\ outFile[7] = DecLine(0, 1)

\* the kinds of output the claims speak of
RecipientLike(v) == v.hasAddr /\ Within(v.value)
ChangeLike(v) == v.hasAddr /\ v.value > 0 /\ ~Within(v.value)
Recipients == {i \in DOMAIN vouts : RecipientLike(vouts[i])}
Changes == {i \in DOMAIN vouts : ChangeLike(vouts[i])}
Last(S) == CHOOSE i \in S : \A j \in S : j <= i
Addressed(v) == v.hasAddr
\* results no output has been classified into
Blank ==
    [trader_output_address |-> "none", miner_change_address |-> "none",
     miner_change_amount |-> DecLine(0, 1)]

\* C15: over any output list, the change address and amount are those of the
\* last addressed positive output not within the tolerance, the recipient
\* address is that of the last addressed output within the tolerance, the
\* results are those of the list without its outputs that have no address,
\* and each addressed positive output fills the recipient or the change
\* fields and not both
C15_LastWins ==
    Classified =>
        /\ Changes # {} =>
            /\ report[6] = TextLine(vouts[Last(Changes)].address)
            /\ report[7] = DecLine(vouts[Last(Changes)].value, 8)
        /\ Recipients # {} =>
            report[4] = TextLine(vouts[Last(Recipients)].address)
        /\ report = ReportLines(classify(SelectSeq(vouts, Addressed)))
        /\ \A i \in DOMAIN vouts :
            /\ ~vouts[i].hasAddr => classify_step(Blank, vouts[i]) = Blank
            /\ (vouts[i].hasAddr /\ vouts[i].value > 0) =>
                LET r == classify_step(Blank, vouts[i])
                IN  (r.trader_output_address = "none") # (r.miner_change_address = "none")

C15_Witness ==
    /\ pc = "done"
    /\ outFile = report
    /\ Len(vouts) = 3
    /\ vouts[1] = Vout(amount_to_send + Tolerance + 1, ChangeAddr)
    /\ vouts[2] = Vout(amount_to_send + Tolerance + 1, TraderAddr)
    /\ vouts[3] = NoAddr(amount_to_send)
    /\ report[6] = TextLine(TraderAddr)
    /\ report[4] = TextLine(TraderAddr)

\* C16: the fee line of the report is the fee of the pool entry main read;
\* the entry is read by one request, after the transfer request succeeded
\* and before any block is requested for the transfer, and no second such
\* request follows; the fee read is the fee the transaction pays
C16_FeeFromPoolEntry ==
    /\ Cardinality(Where("getmempoolentry")) <= 1
    /\ \A i \in Where("getmempoolentry") :
        /\ \E j \in Where("sendtoaddress") : j < i /\ log[j].ok
        /\ \A k \in ConfirmRequests : i < k
    /\ ConfirmRequests # {} => \E i \in Where("getmempoolentry") : log[i].ok
    /\ mempool_entry.found <=> \E i \in Where("getmempoolentry") : log[i].ok
    /\ mempool_entry.found =>
        \A t \in mempool \cup {c.tx : c \in chain} :
            t.id = txid => mempool_entry.fee = t.fee
    /\ Classified =>
        /\ mempool_entry.found
        /\ report[8] = DecLine(mempool_entry.fee, 8)
    /\ pc = "done" => outFile[8] = DecLine(mempool_entry.fee, 8)

C16_Witness ==
    /\ pc = "done"
    /\ mempool_entry = [found |-> TRUE, fee |-> 3]
    /\ Confirmed
    /\ outFile[8] = DecLine(3, 8)
    /\ OnlyRecipient

\* the step issued exactly one request, rpc
Issued(rpc) ==
    /\ Len(log') = Len(log) + 1
    /\ SubSeq(log', 1, Len(log)) = log
    /\ log'[Len(log')].rpc = rpc

\* a step of the mining loop: what one request of lines 128-141 does
LoopStep(exit) ==
    /\ (pc = "while" /\ pc' # pc) => (log' = log /\ pc' \in {"mine", "trader_address"})
    /\ (pc = "mine" /\ pc' # pc) =>
        /\ Issued("generatetoaddress")
        /\ pc' \in {"balance", "failed"}
        /\ blocks_mined' = blocks_mined + 1
        /\ pc' = "balance" =>
            /\ log'[Len(log')].ok
            /\ height' = height + 1
            /\ \E u \in utxos' : utxos' = utxos \cup {u} /\ u.cbh = height' /\ u \notin utxos
    /\ (pc = "balance" /\ pc' # pc) =>
        /\ blocks_mined = Generated
        /\ Issued("getbalance")
        /\ pc' \in {"while", "failed"}
        /\ height' = height
        /\ blocks_mined' = blocks_mined
    /\ pc' = "trader_address" => (blocks_mined' = Generated' /\ exit)

\* C17 as claimed: an iteration of the mining loop is the loop test, then
\* one generatetoaddress request and nothing else, which puts one block on
\* the chain and its reward in the Miner wallet, then one getbalance request
\* and nothing else; at every balance read blocks_mined is the number of
\* blocks the run has generated, and at the loop's exit the chain is
\* blocks_mined blocks higher than at the start
C17_OneBlockOneRead ==
    [][LoopStep(height' = start_height + blocks_mined')]_vars

\* C17 as amended: the same iteration, and at the loop's exit the chain is
\* at least blocks_mined blocks higher than at the start, the blocks above
\* blocks_mined being those other actors generated
C17_OneBlockOneReadOwnBlocks ==
    [][LoopStep(height' >= start_height + blocks_mined')]_vars

C17_Witness ==
    /\ pc = "trader_address"
    /\ blocks_mined = 2
    /\ Generated = 2
    /\ OtherBlocks = 1
    /\ Count(log, "getbalance") = 2

\* the Miner wallet held an output it could spend when the run started
HadFunds == \E u \in utxos : u.cbh <= start_height /\ Mature(u, start_height)

\* C18: the loop is entered with its balance variable at zero whatever the
\* wallet holds, so a run that is past the loop has generated at least one
\* block, and a run whose Miner wallet could spend an output at the start
\* leaves the loop with exactly one block generated
C18_AlwaysMinesOne ==
    /\ (pc = "while" /\ blocks_mined = 0) => (miner_balance = 0 /\ Generated = 0)
    /\ pc \in AfterLoopPcs => (blocks_mined >= 1 /\ Generated >= 1)
    /\ (pc = "trader_address" /\ HadFunds) => (blocks_mined = 1 /\ Generated = 1)

C18_Witness ==
    /\ pc = "trader_address"
    /\ HadFunds
    /\ start_height = PriorHeight
    /\ height = PriorHeight + 1
    /\ blocks_mined = 1
    /\ miner_balance = Subsidy

\* block b was generated for the Miner wallet by this run
OwnBlock(b) == b > start_height /\ \E u \in utxos : u.cbh = b

\* C19: the block hash of a written report is that of a block this run
\* generated after the transfer, the transfer's transaction is in that block,
\* and the height of the report is the height of that block (a block's
\* identifier in this model is its height)
C19_ReportedBlockAndHeight ==
    pc = "done" =>
        /\ outFile[10] = IdLine("blockhash", confirmation_block_hash)
        /\ OwnBlock(confirmation_block_hash)
        /\ InBlock # {}
        /\ Cardinality(ConfirmRequests) = 1
        /\ outFile[9] = IntLine(confirmation_block_hash)

\* C20: in a written report the sender's input amount of line 3 is the sum
\* of the recipient's amount of line 5, the change amount of line 7 and the
\* fee of line 8
C20_AmountsBalance ==
    pc = "done" =>
        /\ outFile[3] = DecLine(50 * Coin, 1)
        /\ outFile[5] = DecLine(20 * Coin, 1)
        /\ outFile[3].n = outFile[5].n + outFile[7].n + outFile[8].n

=============================================================================
